---- MODULE Spec2Model ----
(***************************************************************************)
(* A model of tools/generate_large_dicom.py: the size parser, the size     *)
(* planner, the raster synthesizer (one sample at a time), the container   *)
(* writer's identifiers and the top-level pipeline of main.                *)
(*                                                                         *)
(* Strings are sequences of one-character strings.  Python integers are    *)
(* unbounded: where a value may leave the range of TLC's integers it is    *)
(* kept as a sequence of bits, least significant first, with no           *)
(* leading zero bit (the empty sequence is 0).                             *)
(***************************************************************************)
EXTENDS Integers, Sequences, FiniteSets, TLC

VARIABLES
    size_str,   \* parse_size: its argument
    parts,      \* how the argument was put together (lead, literal, unit, trail)
    parsed,     \* parse_size: what it returned or raised ("pending" before the call)
    t1, t2,     \* calculate_dimensions: two target byte counts, t1 <= t2
    plan1, plan2, \* calculate_dimensions: what it returned or raised for each
    img,        \* generate_realistic_medical_image: its arguments (width, height, modality)
    px, py,     \* the column and the row of the sample followed through the function
    ipc,        \* the statement of the function that runs next
    rib,        \* the index of the rib loop, then of the organ loop
    sample,     \* image[py, px], a 16-bit unsigned value
    intended,   \* the value the statements so far mean the sample to have, unwrapped
    argv,       \* main: the command line (size, output, modality)
    pc,         \* main: the statement that runs next
    status,     \* the exit status of the process (Running until it exits)
    target_size, \* main: what parse_size returned
    dims,       \* create_dicom_file: what calculate_dimensions returned
    variant,    \* the branch of generate_realistic_medical_image that ran
    ds,         \* create_dicom_file: the identifiers and sizes of the dataset
    fs,         \* the file system: the output's directory and the output file
    writes,     \* how many times this invocation wrote the output file
    stdout,     \* what this invocation printed, a tag for each line
    log,        \* the stages this invocation ran to completion, in order
    run,        \* the number of this invocation
    uid_count,  \* how many identifiers generate_uid has minted, over all invocations
    archive     \* the identifiers of the datasets earlier invocations built

parseVars == <<size_str, parts, parsed>>
dimVars == <<t1, t2, plan1, plan2>>
imgVars == <<img, px, py, ipc, rib, sample, intended>>
mainVars == <<argv, pc, status, target_size, dims, variant, ds, fs, writes, stdout,
              log, run, uid_count, archive>>
vars == <<parseVars, dimVars, imgVars, mainVars>>

(***************************************************************************)
(* Bounds of the model.                                                    *)
(***************************************************************************)
MaxLit == 2
MaxDelta == 1
MaxStep == 2
Stride == 1500
MaxSigma == 3
GridN == 8
MaxRuns == 2

(***************************************************************************)
(* Strings.                                                                *)
(***************************************************************************)
Str(S, n) == UNION {[1..k -> S] : k \in 0..n}

Digits == {"0", "1", "2", "3", "4", "5", "6", "7", "8", "9"}

\* str.upper(), on the characters the model draws
UpperChar(c) ==
    CASE c = "k" -> "K"
      [] c = "m" -> "M"
      [] c = "g" -> "G"
      [] c = "b" -> "B"
      [] OTHER -> c

Upper(s) == [i \in 1..Len(s) |-> UpperChar(s[i])]

IsSpace(c) == c = " "

RECURSIVE LStrip(_)
LStrip(s) == IF s # <<>> /\ IsSpace(Head(s)) THEN LStrip(Tail(s)) ELSE s

RECURSIVE RStrip(_)
RStrip(s) ==
    IF s # <<>> /\ IsSpace(s[Len(s)]) THEN RStrip(SubSeq(s, 1, Len(s) - 1)) ELSE s

\* str.strip()
Strip(s) == RStrip(LStrip(s))

\* str.endswith(suffix)
EndsWith(s, suffix) ==
    /\ Len(s) >= Len(suffix)
    /\ SubSeq(s, Len(s) - Len(suffix) + 1, Len(s)) = suffix

\* s[:-2]
DropLast2(s) == IF Len(s) >= 2 THEN SubSeq(s, 1, Len(s) - 2) ELSE <<>>

(***************************************************************************)
(* Unbounded naturals as bit sequences.                                    *)
(***************************************************************************)
RECURSIVE BNorm(_)
BNorm(a) == IF a # <<>> /\ a[Len(a)] = 0 THEN BNorm(SubSeq(a, 1, Len(a) - 1)) ELSE a

RECURSIVE BAddC(_, _, _)
BAddC(a, b, c) ==
    IF a = <<>> /\ b = <<>> THEN (IF c = 1 THEN <<1>> ELSE <<>>)
    ELSE LET x == IF a = <<>> THEN 0 ELSE Head(a)
             y == IF b = <<>> THEN 0 ELSE Head(b)
             t == x + y + c
         IN  <<t % 2>> \o BAddC(IF a = <<>> THEN <<>> ELSE Tail(a),
                                IF b = <<>> THEN <<>> ELSE Tail(b), t \div 2)

BAdd(a, b) == BNorm(BAddC(a, b, 0))

\* a * 2^k
BShl(a, k) == IF a = <<>> THEN <<>> ELSE [i \in 1..k |-> 0] \o a

RECURSIVE BOfNat(_)
BOfNat(n) == IF n = 0 THEN <<>> ELSE <<n % 2>> \o BOfNat(n \div 2)

RECURSIVE BToNat(_)
BToNat(a) == IF a = <<>> THEN 0 ELSE Head(a) + 2 * BToNat(Tail(a))

DigitVal(c) ==
    CASE c = "0" -> 0 [] c = "1" -> 1 [] c = "2" -> 2 [] c = "3" -> 3
      [] c = "4" -> 4 [] c = "5" -> 5 [] c = "6" -> 6 [] c = "7" -> 7
      [] c = "8" -> 8 [] c = "9" -> 9

\* acc * 10 + d
BMul10Add(acc, d) == BAdd(BAdd(BShl(acc, 3), BShl(acc, 1)), BOfNat(d))

\* the value of a sequence of decimal digits, most significant first
RECURSIVE BOfDigitsFrom(_, _)
BOfDigitsFrom(digs, acc) ==
    IF Len(acc) >= 0 /\ digs = <<>> THEN acc
    ELSE BOfDigitsFrom(Tail(digs), BMul10Add(acc, DigitVal(Head(digs))))

BOfDigits(digs) == BOfDigitsFrom(digs, <<>>)

(***************************************************************************)
(* Python values: an integer is [neg, mag]; a raise is [exc].              *)
(***************************************************************************)
PyInt(neg, mag) == [exc |-> "none", neg |-> (neg /\ mag # <<>>), mag |-> mag]
Raise(e) == [exc |-> e]
Pending == [exc |-> "pending"]
Returned(v) == v.exc = "none"

\* optional sign, then at least one digit, whitespace allowed around
IsIntLiteral(t) ==
    LET body == IF t # <<>> /\ Head(t) = "-" THEN Tail(t) ELSE t
    IN  body # <<>> /\ \A i \in 1..Len(body) : body[i] \in Digits

LiteralNeg(t) == t # <<>> /\ Head(t) = "-"
LiteralMag(t) == BOfDigits(IF LiteralNeg(t) THEN Tail(t) ELSE t)

\* int(str): exact
ParseInt(s) ==
    LET t == Strip(s)
    IN  IF IsIntLiteral(t) THEN PyInt(LiteralNeg(t), LiteralMag(t))
        ELSE Raise("ValueError")

\* round to nearest, ties to even, to a 53-bit significand (binary64)
Round53(a) ==
    IF Len(a) <= 53 THEN a
    ELSE LET drop   == Len(a) - 53
             kept   == SubSeq(a, drop + 1, Len(a))
             half   == a[drop] = 1
             sticky == \E i \in 1..(drop - 1) : a[i] = 1
             up     == half /\ (sticky \/ kept[1] = 1)
             mant   == IF up THEN BAdd(kept, <<1>>) ELSE kept
         IN  BNorm([i \in 1..drop |-> 0] \o mant)

\* float(str) of a decimal integer literal, then the multiplications by 1024
\* (exact: powers of two), then int(): [neg, mag], or the raise
FloatTimes(s, shift) ==
    LET t == Strip(s)
    IN  IF ~IsIntLiteral(t) THEN Raise("ValueError")
        ELSE LET f == BShl(Round53(LiteralMag(t)), shift)
             IN  IF Len(f) > 1024 THEN Raise("OverflowError")
                 ELSE PyInt(LiteralNeg(t), f)

parse_size(s0) ==
    LET s == Strip(Upper(s0))
    IN  IF EndsWith(s, <<"M", "B">>) THEN FloatTimes(DropLast2(s), 20)
        ELSE IF EndsWith(s, <<"G", "B">>) THEN FloatTimes(DropLast2(s), 30)
        ELSE IF EndsWith(s, <<"K", "B">>) THEN FloatTimes(DropLast2(s), 10)
        ELSE ParseInt(s)

(***************************************************************************)
(* calculate_dimensions.                                                   *)
(***************************************************************************)
bits_per_pixel == 16

\* a Python int small enough for TLC's integers
ToInt(v) == (IF v.neg THEN -1 ELSE 1) * BToNat(v.mag)

\* lo * lo <= n < hi * hi
RECURSIVE SqrtBetween(_, _, _)
SqrtBetween(n, lo, hi) ==
    IF hi - lo <= 1 THEN lo
    ELSE LET mid == (lo + hi) \div 2
         IN  IF mid * mid <= n THEN SqrtBetween(n, mid, hi)
             ELSE SqrtBetween(n, lo, mid)

\* int(np.sqrt(n)): the square root of a negative number is nan, and int(nan)
\* raises; below 2^52 the truncated binary64 root is the integer root
IntSqrt(n) ==
    IF n < 0 THEN Raise("ValueError")
    ELSE [exc |-> "none", val |-> SqrtBetween(n, 0, 46341)]

\* the pixel count were the header allowance not taken off the target
TotalPixelsOfWholeTarget(target_size_bytes) ==
    target_size_bytes \div (bits_per_pixel \div 8)

TotalPixels(target_size_bytes) ==
    LET header_overhead == 10 * 1024
        pixel_data_size == target_size_bytes - header_overhead
        bytes_per_pixel == bits_per_pixel \div 8
    IN  pixel_data_size \div bytes_per_pixel

\* which branch of the if/elif chain is taken
Tier(total_pixels) ==
    IF total_pixels < 512 * 512 THEN 1
    ELSE IF total_pixels < 1024 * 1024 THEN 2
    ELSE IF total_pixels < 2048 * 2048 THEN 3
    ELSE 4

\* the chain with the remainder where the fixed-width branches take the quotient
TierDimsOfRemainder(total_pixels) ==
    CASE Tier(total_pixels) = 2 ->
            [exc |-> "none", width |-> 1024, height |-> total_pixels % 1024]
      [] Tier(total_pixels) = 3 ->
            [exc |-> "none", width |-> 2048, height |-> total_pixels % 2048]
      [] OTHER ->
            LET side == IntSqrt(total_pixels)
            IN  IF side.exc # "none" THEN side
                ELSE [exc |-> "none", width |-> side.val, height |-> side.val]

\* width and height as the if/elif chain leaves them, before the clamp
TierDims(total_pixels) ==
    CASE Tier(total_pixels) = 1 ->
            LET r == IntSqrt(total_pixels)
            IN  IF r.exc # "none" THEN r
                ELSE [exc |-> "none", width |-> r.val, height |-> r.val]
      [] Tier(total_pixels) = 2 ->
            [exc |-> "none", width |-> 1024, height |-> total_pixels \div 1024]
      [] Tier(total_pixels) = 3 ->
            [exc |-> "none", width |-> 2048, height |-> total_pixels \div 2048]
      [] OTHER ->
            LET side == IntSqrt(total_pixels)
            IN  IF side.exc # "none" THEN side
                ELSE [exc |-> "none", width |-> side.val, height |-> side.val]

Max(a, b) == IF a >= b THEN a ELSE b
Min(a, b) == IF a <= b THEN a ELSE b

\* max(256, min(8192, v))
Clamp(v) == Max(256, Min(8192, v))

\* the returned pair, with the pair before the clamp kept beside it
calculate_dimensions(target_size_bytes) ==
    LET raw == TierDims(TotalPixels(target_size_bytes))
    IN  IF raw.exc # "none" THEN raw
        ELSE [exc |-> "none", width |-> Clamp(raw.width), height |-> Clamp(raw.height),
              raw_width |-> raw.width, raw_height |-> raw.height]

\* len(pixel_array.tobytes()) for the (height, width) uint16 raster
PixelDataLen(width, height) == height * width * (bits_per_pixel \div 8)

(***************************************************************************)
(* generate_realistic_medical_image, followed for one sample of the raster.*)
(* A drawn float is kept in halves (d stands for d / 2).                   *)
(***************************************************************************)
\* the float d / 2 truncated toward zero
TruncHalf(d) == IF d >= 0 THEN d \div 2 ELSE -((-d) \div 2)

Saturate(v) == Max(0, Min(65535, v))

\* .astype(np.uint16) of the float d / 2: the truncated value when uint16 holds
\* it; otherwise the C conversion is undefined and the build decides (the low 16
\* bits on x86-64, the nearest bound where the conversion saturates)
AsTypeU16(d) ==
    LET v == TruncHalf(d)
    IN  IF 0 <= v /\ v <= 65535 THEN {v} ELSE {v % 65536, Saturate(v)}

\* uint16 + uint16 in place
AddU16(a, b) == (a + b) % 65536

\* np.clip(image, 0, 65535) on the uint16 raster
ClipU16(v) == Max(0, Min(65535, v))

\* what np.random.normal(mu, sd) may draw, in halves, to MaxSigma deviations
NormalDraws(mu, sd) ==
    {2 * (mu + k * sd) + f : k \in (-MaxSigma)..MaxSigma, f \in {0, 1}}

\* what np.random.rayleigh(scale) may draw, in halves
RayleighDraws(scale) ==
    {k * scale + f : k \in 0..(2 * MaxSigma + 1), f \in {0, 1}}

center_x(w) == w \div 2
center_y(h) == h \div 2
Dist2(x, y, cx, cy) == (x - cx) * (x - cx) + (y - cy) * (y - cy)

\* (x - center_x)**2 + (y - center_y)**2 < (min(width, height) * 0.4)**2
body_mask(x, y, w, h) ==
    25 * Dist2(x, y, center_x(w), center_y(h)) < 4 * Min(w, h) * Min(w, h)

Abs(v) == IF v < 0 THEN -v ELSE v

spine_mask(x, y, w, h) ==
    /\ 20 * Abs(x - center_x(w)) < w
    /\ 2 * y > center_y(h)
    /\ 2 * y < 3 * center_y(h)

\* cos and sin of np.linspace(0, np.pi, 8), in millionths
RibCos == <<1000000, 900969, 623490, 222521, -222521, -623490, -900969, -1000000>>
RibSin == <<0, 433884, 781831, 974928, 974928, 781831, 433884, 0>>

\* the rib centre in hundredths of a pixel, then
\* (x - rib_x)**2 + (y - rib_y)**2 < (width * 0.02)**2
rib_mask(x, y, w, h, i) ==
    LET rib_x100 == 100 * center_x(w) + (3 * w * RibCos[i + 1]) \div 100000
        rib_y100 == 100 * center_y(h) + (2 * h * RibSin[i + 1]) \div 100000
    IN  Dist2(100 * x, 100 * y, rib_x100, rib_y100) < 4 * w * w

\* ((x - center_x -+ width * 0.15)**2 + (y - center_y)**2) < (width * 0.12)**2
lung_mask(x, y, w, h, side) ==
    LET a == 20 * (x - center_x(w)) + side * 3 * w
        b == y - center_y(h)
    IN  25 * a * a + 10000 * b * b < 144 * w * w

lung_left(x, y, w, h) == lung_mask(x, y, w, h, 1)
lung_right(x, y, w, h) == lung_mask(x, y, w, h, -1)

\* (x - center_x)**2 + (y - center_y)**2 < (min(width, height) * 0.35)**2
brain_mask(x, y, w, h) ==
    400 * Dist2(x, y, center_x(w), center_y(h)) < 49 * Min(w, h) * Min(w, h)

gray_matter(x, y, w, h) ==
    /\ brain_mask(x, y, w, h)
    /\ 400 * Dist2(x, y, center_x(w), center_y(h)) > 9 * Min(w, h) * Min(w, h)

white_matter(x, y, w, h) ==
    /\ brain_mask(x, y, w, h)
    /\ 400 * Dist2(x, y, center_x(w), center_y(h)) <= 9 * Min(w, h) * Min(w, h)

\* ((x - organ_x)**2 + (y - organ_y)**2) < (min(width, height) * 0.1)**2
organ_mask(x, y, w, h, organ_x, organ_y) ==
    100 * Dist2(x, y, organ_x, organ_y) < Min(w, h) * Min(w, h)

\* center + np.random.randint(-extent // 4, extent // 4): some of the draws
OrganCentres(c, extent) == {c + ((-extent) \div 4), c, c + (extent \div 4) - 1}

(***************************************************************************)
(* The size parser on its own: every argument the bounds allow.            *)
(***************************************************************************)
LitChars == {"0", "1", "7", "-", " "}
UnitChars == {"k", "K", "m", "M", "g", "G", "b", "B"}
Pads == {<<>>, <<" ">>}
\* literals of at least 2^53, where binary64 no longer holds every integer
BigLits == { <<"9","0","0","7","1","9","9","2","5","4","7","4","0","9","9","2">>,
             <<"9","0","0","7","1","9","9","2","5","4","7","4","0","9","9","3">>,
             <<"-","9","0","0","7","1","9","9","2","5","4","7","4","0","9","9","5">>,
             <<"1","8","0","1","4","3","9","8","5","0","9","4","8","1","9","8","3">> }

SizeParts ==
    [lead : Pads, lit : Str(LitChars, MaxLit) \cup BigLits,
     unit : Str(UnitChars, 2), trail : Pads]

Join(p) == p.lead \o p.lit \o p.unit \o p.trail

IdleParse == size_str = <<>> /\ parts = [lead |-> <<>>, lit |-> <<>>, unit |-> <<>>, trail |-> <<>>] /\ parsed = Pending
IdleImg ==
    /\ img = [width |-> 0, height |-> 0, modality |-> "CT"]
    /\ px = 0 /\ py = 0 /\ ipc = "idle" /\ rib = 0 /\ sample = 0 /\ intended = 0
IdleMain ==
    /\ argv = [size |-> <<>>, output |-> "", modality |-> ""]
    /\ pc = "idle" /\ status = 0 /\ target_size = Pending /\ dims = Pending
    /\ variant = "none" /\ ds = [built |-> FALSE]
    /\ fs = [dir |-> "exists", file |-> "absent", len |-> 0]
    /\ writes = 0 /\ stdout = <<>> /\ log = <<>> /\ run = 0 /\ uid_count = 0
    /\ archive = {}
IdleDims == t1 = 0 /\ t2 = 0 /\ plan1 = Pending /\ plan2 = Pending

InitParse ==
    /\ parts \in SizeParts
    /\ size_str = Join(parts)
    /\ parsed = Pending
    /\ IdleDims /\ IdleImg /\ IdleMain

CallParseSize ==
    /\ parsed = Pending
    /\ parsed' = parse_size(size_str)
    /\ UNCHANGED <<size_str, parts, dimVars, imgVars, mainVars>>

NextParse == CallParseSize

SpecParse == InitParse /\ [][NextParse]_vars

(***************************************************************************)
(* The size planner on its own: pairs of targets around every tier edge.   *)
(***************************************************************************)
TierEdges == {0, 256 * 256, 512 * 512, 1024 * 1024, 2048 * 2048, 8192 * 8192}

TargetAnchors ==
    {10 * 1024 + 2 * e : e \in TierEdges}
        \cup {-1048576, 0, 5000, 1048576, 104857600, 1073741824}

Targets ==
    {a + d + k * Stride : a \in TargetAnchors, d \in (-MaxDelta)..MaxDelta, k \in 0..MaxStep}

InitDims ==
    /\ t1 \in Targets
    /\ t2 \in {t \in Targets : t >= t1}
    /\ plan1 = Pending
    /\ plan2 = Pending
    /\ IdleParse /\ IdleImg /\ IdleMain

PlanFirst ==
    /\ plan1 = Pending
    /\ plan1' = calculate_dimensions(t1)
    /\ UNCHANGED <<t1, t2, plan2, parseVars, imgVars, mainVars>>

PlanSecond ==
    /\ plan2 = Pending
    /\ plan2' = calculate_dimensions(t2)
    /\ UNCHANGED <<t1, t2, plan1, parseVars, imgVars, mainVars>>

NextDims == PlanFirst \/ PlanSecond

SpecDims == InitDims /\ [][NextDims]_vars

(***************************************************************************)
(* The raster synthesizer on its own, one sample at a time.                *)
(***************************************************************************)
ImageSizes == {<<256, 256>>}
ImageModalities == {"CT", "MR", "US", "XR"}
GridPoints(w, h) == {<<(w * i) \div GridN, (h * j) \div GridN>> : i, j \in 0..(GridN - 1)}

InitImage ==
    /\ \E wh \in ImageSizes, m \in ImageModalities :
          img = [width |-> wh[1], height |-> wh[2], modality |-> m]
    /\ \E p \in GridPoints(img.width, img.height) : px = p[1] /\ py = p[2]
    /\ ipc = "enter"
    /\ rib = 0
    /\ sample = 0
    /\ intended = 0
    /\ IdleParse /\ IdleDims /\ IdleMain

\* image[mask] = np.random.normal(mu, sd, n).astype(np.uint16)
Overwrite(inmask, mu, sd) ==
    IF inmask
    THEN \E d \in NormalDraws(mu, sd) : \E v \in AsTypeU16(d) :
            sample' = v /\ intended' = TruncHalf(d)
    ELSE UNCHANGED <<sample, intended>>

\* image = np.zeros((height, width), dtype=np.uint16), on either branch
Zeros ==
    /\ ipc = "enter" /\ img.modality \in {"CT", "MR"}
    /\ sample' = 0 /\ intended' = 0
    /\ ipc' = IF img.modality = "CT" THEN "ct_body" ELSE "mr_gray"
    /\ UNCHANGED <<img, px, py, rib, parseVars, dimVars, mainVars>>

CTBody ==
    /\ ipc = "ct_body"
    /\ Overwrite(body_mask(px, py, img.width, img.height), 1000, 200)
    /\ ipc' = "ct_spine"
    /\ UNCHANGED <<img, px, py, rib, parseVars, dimVars, mainVars>>

CTSpine ==
    /\ ipc = "ct_spine"
    /\ Overwrite(spine_mask(px, py, img.width, img.height), 3000, 300)
    /\ ipc' = "ct_ribs" /\ rib' = 0
    /\ UNCHANGED <<img, px, py, parseVars, dimVars, mainVars>>

\* one pass of the loop over the 8 angles
CTRib ==
    /\ ipc = "ct_ribs"
    /\ Overwrite(rib_mask(px, py, img.width, img.height, rib), 2800, 200)
    /\ IF rib = 7 THEN ipc' = "ct_lungs" /\ rib' = 0
       ELSE ipc' = "ct_ribs" /\ rib' = rib + 1
    /\ UNCHANGED <<img, px, py, parseVars, dimVars, mainVars>>

CTLungs ==
    /\ ipc = "ct_lungs"
    /\ Overwrite(lung_left(px, py, img.width, img.height)
                    \/ lung_right(px, py, img.width, img.height), -1000, 100)
    /\ ipc' = "clip"
    /\ UNCHANGED <<img, px, py, rib, parseVars, dimVars, mainVars>>

MRGray ==
    /\ ipc = "mr_gray"
    /\ Overwrite(gray_matter(px, py, img.width, img.height), 30000, 3000)
    /\ ipc' = "mr_white"
    /\ UNCHANGED <<img, px, py, rib, parseVars, dimVars, mainVars>>

MRWhite ==
    /\ ipc = "mr_white"
    /\ Overwrite(white_matter(px, py, img.width, img.height), 45000, 2000)
    /\ ipc' = "mr_csf"
    /\ UNCHANGED <<img, px, py, rib, parseVars, dimVars, mainVars>>

\* brain_mask & (np.random.random((height, width)) < 0.05)
MRCsf ==
    /\ ipc = "mr_csf"
    /\ \E hit \in BOOLEAN :
          Overwrite(brain_mask(px, py, img.width, img.height) /\ hit, 10000, 1000)
    /\ ipc' = "clip"
    /\ UNCHANGED <<img, px, py, rib, parseVars, dimVars, mainVars>>

USSpeckle ==
    /\ ipc = "enter" /\ img.modality = "US"
    /\ \E d \in RayleighDraws(20000) : \E v \in AsTypeU16(d) :
          sample' = v /\ intended' = TruncHalf(d)
    /\ ipc' = "us_organs" /\ rib' = 0
    /\ UNCHANGED <<img, px, py, parseVars, dimVars, mainVars>>

\* one pass of the loop over the 3 organs
USOrgan ==
    /\ ipc = "us_organs"
    /\ \E organ_x \in OrganCentres(center_x(img.width), img.width),
          organ_y \in OrganCentres(center_y(img.height), img.height) :
          IF organ_mask(px, py, img.width, img.height, organ_x, organ_y)
          THEN \E d \in NormalDraws(15000, 5000) : \E v \in AsTypeU16(d) :
                  sample' = AddU16(sample, v) /\ intended' = intended + TruncHalf(d)
          ELSE UNCHANGED <<sample, intended>>
    /\ IF rib = 2 THEN ipc' = "clip" /\ rib' = 0
       ELSE ipc' = "us_organs" /\ rib' = rib + 1
    /\ UNCHANGED <<img, px, py, parseVars, dimVars, mainVars>>

GenericNoise ==
    /\ ipc = "enter" /\ img.modality \notin {"CT", "MR", "US"}
    /\ \E d \in NormalDraws(25000, 10000) : \E v \in AsTypeU16(d) :
          sample' = v /\ intended' = TruncHalf(d)
    /\ ipc' = "clip"
    /\ UNCHANGED <<img, px, py, rib, parseVars, dimVars, mainVars>>

\* image = np.clip(image, 0, 65535), then return image
Clip ==
    /\ ipc = "clip"
    /\ sample' = ClipU16(sample)
    /\ ipc' = "return"
    /\ UNCHANGED <<img, px, py, rib, intended, parseVars, dimVars, mainVars>>

NextImage ==
    \/ Zeros \/ CTBody \/ CTSpine \/ CTRib \/ CTLungs
    \/ MRGray \/ MRWhite \/ MRCsf
    \/ USSpeckle \/ USOrgan
    \/ GenericNoise
    \/ Clip

SpecImage == InitImage /\ [][NextImage]_vars

(***************************************************************************)
(* main and create_dicom_file: one invocation after another.               *)
(***************************************************************************)
Absent == "(absent)"
NoSize == <<Absent>>

\* pydicom.uid.CTImageStorage, MRImageStorage, ExplicitVRLittleEndian
CTImageStorage == [root |-> "1.2.840.10008.5.1.4.1.1", leaf |-> 2]
MRImageStorage == [root |-> "1.2.840.10008.5.1.4.1.1", leaf |-> 4]
ExplicitVRLittleEndian == [root |-> "1.2.840.10008.1.2", leaf |-> 1]

\* pydicom's generate_uid(): a new identifier under pydicom's root at each call;
\* n identifiers were minted before this one
generate_uid(n) == [root |-> "1.2.826.0.1.3680043.8.498", leaf |-> n + 1]

\* choices=['CT', 'MR', 'US']
ModalityChoices == {"CT", "MR", "US"}

\* the branch generate_realistic_medical_image takes for a modality
SynthesisVariant(modality) ==
    IF modality = "CT" THEN "CT"
    ELSE IF modality = "MR" THEN "MR"
    ELSE IF modality = "US" THEN "US"
    ELSE "generic"

\* a dataset whose study takes the instance's identifier instead of its own
BuildDatasetSharingUid(modality, width, height, n) ==
    LET sop_class == IF modality = "CT" THEN CTImageStorage ELSE MRImageStorage
        sop_instance == generate_uid(n)
    IN  [built |-> TRUE,
         MediaStorageSOPClassUID |-> sop_class,
         MediaStorageSOPInstanceUID |-> sop_instance,
         TransferSyntaxUID |-> ExplicitVRLittleEndian,
         ImplementationClassUID |-> generate_uid(n + 1),
         SOPClassUID |-> sop_class,
         SOPInstanceUID |-> sop_instance,
         StudyInstanceUID |-> sop_instance,
         SeriesInstanceUID |-> generate_uid(n + 3),
         Modality |-> modality,
         Rows |-> height,
         Columns |-> width,
         PixelData |-> PixelDataLen(width, height)]

\* the identifiers and the image fields create_dicom_file sets, with n
\* identifiers minted before
BuildDataset(modality, width, height, n) ==
    LET sop_class == IF modality = "CT" THEN CTImageStorage ELSE MRImageStorage
        sop_instance == generate_uid(n)
    IN  [built |-> TRUE,
         MediaStorageSOPClassUID |-> sop_class,
         MediaStorageSOPInstanceUID |-> sop_instance,
         TransferSyntaxUID |-> ExplicitVRLittleEndian,
         ImplementationClassUID |-> generate_uid(n + 1),
         SOPClassUID |-> sop_class,
         SOPInstanceUID |-> sop_instance,
         StudyInstanceUID |-> generate_uid(n + 2),
         SeriesInstanceUID |-> generate_uid(n + 3),
         Modality |-> modality,
         Rows |-> height,
         Columns |-> width,
         PixelData |-> PixelDataLen(width, height)]

\* the identifiers of a dataset, as kept of earlier invocations
Ids(d) ==
    [Modality |-> d.Modality,
     MediaStorageSOPClassUID |-> d.MediaStorageSOPClassUID,
     MediaStorageSOPInstanceUID |-> d.MediaStorageSOPInstanceUID,
     ImplementationClassUID |-> d.ImplementationClassUID,
     SOPClassUID |-> d.SOPClassUID,
     SOPInstanceUID |-> d.SOPInstanceUID,
     StudyInstanceUID |-> d.StudyInstanceUID,
     SeriesInstanceUID |-> d.SeriesInstanceUID]

SizeArgs ==
    { <<"1", "0", "0", "B">>,
      <<"-", "1", "M", "B">>,
      <<"5", "0", "0", "0">>,
      <<"1", "0", "0", "k", "b">>,
      <<" ", "1", "M", "B", " ">>,
      <<"5", "m", "b">>,
      <<"2", "0", "0", "M", "B">>,
      <<"1", "G", "B">> }

ModalityArgs == {"CT", "MR", "US", "XR", "ct"}
OutputArgs == {"out.dcm", "new/out.dcm", "ro/new/out.dcm"}

\* the directory of the output before the invocation: there, not yet there, or
\* not there and not creatable
DirBefore(output) ==
    CASE output = "new/out.dcm" -> "absent"
      [] output = "ro/new/out.dcm" -> "blocked"
      [] OTHER -> "exists"

\* what the serialized dataset takes beside the pixel payload
HeaderLens == {1200, 12000}

Argvs ==
    [size : SizeArgs \cup {NoSize}, output : OutputArgs \cup {Absent},
     modality : ModalityArgs \cup {Absent}]

\* the file system an invocation may find
FsBefore(a) ==
    {[dir |-> DirBefore(a.output), file |-> f, len |-> 0] :
        f \in IF DirBefore(a.output) = "exists" THEN {"absent", "stale"} ELSE {"absent"}}

Init ==
    /\ argv \in Argvs
    /\ fs \in FsBefore(argv)
    /\ pc = "parse_args"
    /\ status = 0
    /\ target_size = Pending
    /\ dims = Pending
    /\ variant = "none"
    /\ ds = [built |-> FALSE]
    /\ writes = 0
    /\ stdout = <<>>
    /\ log = <<>>
    /\ run = 1
    /\ uid_count = 0
    /\ archive = {}
    /\ IdleParse /\ IdleDims /\ IdleImg

\* args.modality: the flag's value, or its default
Modality == IF argv.modality = Absent THEN "CT" ELSE argv.modality

\* a parser whose --modality has no choices
ArgsAcceptedAnyModality ==
    /\ argv.size # NoSize
    /\ argv.output # Absent

\* the required flags are there and the modality is one of the choices
ArgsAccepted ==
    /\ argv.size # NoSize
    /\ argv.output # Absent
    /\ Modality \in ModalityChoices

\* parser.parse_args(): a required flag that is missing, or a modality that is
\* not one of the choices, ends the process with status 2
ParseArgs ==
    /\ pc = "parse_args"
    /\ IF ArgsAccepted
       THEN pc' = "parse_size" /\ status' = status
       ELSE pc' = "exited" /\ status' = 2
    /\ UNCHANGED <<argv, target_size, dims, variant, ds, fs, writes, stdout, log, run,
                   uid_count, archive, parseVars, dimVars, imgVars>>

\* a handler that prints the error line and lets main return
FailWithoutExit(printed) ==
    /\ stdout' = stdout \o printed \o <<"error">>
    /\ status' = 0
    /\ pc' = "exited"

\* except Exception as e: print the error line, sys.exit(1)
Fail(printed) ==
    /\ stdout' = stdout \o printed \o <<"error">>
    /\ status' = 1
    /\ pc' = "exited"

\* target_size = parse_size(args.size), and the line that prints it
ParseSizeStage ==
    /\ pc = "parse_size"
    /\ LET r == parse_size(argv.size)
       IN  IF Returned(r)
           THEN /\ target_size' = r
                /\ stdout' = stdout \o <<"target_size">>
                /\ log' = Append(log, "parse_size")
                /\ pc' = "makedirs"
                /\ status' = status
           ELSE Fail(<<>>) /\ UNCHANGED <<target_size, log>>
    /\ UNCHANGED <<argv, dims, variant, ds, fs, writes, run, uid_count, archive,
                   parseVars, dimVars, imgVars>>

\* os.makedirs(os.path.dirname(os.path.abspath(args.output)), exist_ok=True)
MakeDirs ==
    /\ pc = "makedirs"
    /\ IF fs.dir = "blocked"
       THEN Fail(<<>>) /\ UNCHANGED <<fs, log>>
       ELSE /\ fs' = [fs EXCEPT !.dir = "exists"]
            /\ log' = Append(log, "makedirs")
            /\ pc' = "plan"
            /\ UNCHANGED <<status, stdout>>
    /\ UNCHANGED <<argv, target_size, dims, variant, ds, writes, run, uid_count, archive,
                   parseVars, dimVars, imgVars>>

\* create_dicom_file, to the line that prints the dimensions
PlanDimensions ==
    /\ pc = "plan"
    /\ LET r == calculate_dimensions(ToInt(target_size))
       IN  IF Returned(r)
           THEN /\ dims' = r
                /\ stdout' = stdout \o <<"creating", "target_mb", "dimensions">>
                /\ log' = Append(log, "calculate_dimensions")
                /\ pc' = "synthesize"
                /\ status' = status
           ELSE Fail(<<"creating", "target_mb">>) /\ UNCHANGED <<dims, log>>
    /\ UNCHANGED <<argv, target_size, variant, ds, fs, writes, run, uid_count, archive,
                   parseVars, dimVars, imgVars>>

\* pixel_array = generate_realistic_medical_image(width, height, modality); the
\* raster may not fit in memory
Synthesize ==
    /\ pc = "synthesize"
    /\ variant' = SynthesisVariant(Modality)
    /\ \E fits \in BOOLEAN :
          IF fits
          THEN /\ stdout' = stdout \o <<"generating">>
               /\ log' = Append(log, "generate_image")
               /\ pc' = "build"
               /\ status' = status
          ELSE Fail(<<"generating">>) /\ log' = log
    /\ UNCHANGED <<argv, target_size, dims, ds, fs, writes, run, uid_count, archive,
                   parseVars, dimVars, imgVars>>

\* ds = Dataset() ... ds.PixelData = pixel_array.tobytes()
Build ==
    /\ pc = "build"
    /\ ds' = BuildDataset(Modality, dims.width, dims.height, uid_count)
    /\ uid_count' = uid_count + 4
    /\ pc' = "save"
    /\ UNCHANGED <<argv, status, target_size, dims, variant, fs, writes, stdout, log, run,
                   archive, parseVars, dimVars, imgVars>>

\* ds.save_as(output_path, write_like_original=False): the file is written, or
\* the write fails before the file is opened, or part of the way through
SaveAs ==
    /\ pc = "save"
    /\ \/ \E header \in HeaderLens :
             /\ fs' = [fs EXCEPT !.file = "written", !.len = ds.PixelData + header]
             /\ writes' = writes + 1
             /\ stdout' = stdout \o <<"saving">>
             /\ log' = Append(log, "save_as")
             /\ pc' = "getsize"
             /\ status' = status
       \/ /\ Fail(<<"saving">>)
          /\ UNCHANGED <<fs, writes, log>>
       \/ /\ Fail(<<"saving">>)
          /\ fs' = [fs EXCEPT !.file = "partial", !.len = 0]
          /\ writes' = writes + 1
          /\ log' = log
    /\ UNCHANGED <<argv, target_size, dims, variant, ds, run, uid_count, archive,
                   parseVars, dimVars, imgVars>>

\* a read-back that rewrites the file to the target when the size is off
GetSizeCorrecting ==
    /\ pc = "getsize"
    /\ IF fs.len # ToInt(target_size)
       THEN /\ fs' = [fs EXCEPT !.len = ToInt(target_size)]
            /\ writes' = writes + 1
       ELSE UNCHANGED <<fs, writes>>
    /\ stdout' = stdout \o <<"generated_size", "difference">>
    /\ log' = Append(log, "getsize")
    /\ pc' = "report"
    /\ UNCHANGED <<argv, status, target_size, dims, variant, ds, run, uid_count,
                   archive, parseVars, dimVars, imgVars>>

\* final_size = os.path.getsize(output_path), the two lines that print it and its
\* difference from the target, return final_size
GetSize ==
    /\ pc = "getsize"
    /\ stdout' = stdout \o <<"generated_size", "difference">>
    /\ log' = Append(log, "getsize")
    /\ pc' = "report"
    /\ UNCHANGED <<argv, status, target_size, dims, variant, ds, fs, writes, run, uid_count,
                   archive, parseVars, dimVars, imgVars>>

\* the three closing lines of main; the process then ends with status 0
Report ==
    /\ pc = "report"
    /\ stdout' = stdout \o <<"success", "file_size", "modality">>
    /\ status' = 0
    /\ pc' = "exited"
    /\ UNCHANGED <<argv, target_size, dims, variant, ds, fs, writes, log, run, uid_count,
                   archive, parseVars, dimVars, imgVars>>

\* the tool is run again
NextInvocation ==
    /\ pc = "exited"
    /\ run < MaxRuns
    /\ run' = run + 1
    /\ archive' = archive \cup (IF ds.built THEN {Ids(ds)} ELSE {})
    /\ argv' \in Argvs
    /\ fs' \in FsBefore(argv')
    /\ pc' = "parse_args"
    /\ status' = 0
    /\ target_size' = Pending
    /\ dims' = Pending
    /\ variant' = "none"
    /\ ds' = [built |-> FALSE]
    /\ writes' = 0
    /\ stdout' = <<>>
    /\ log' = <<>>
    /\ UNCHANGED <<uid_count, parseVars, dimVars, imgVars>>

\* a step of the running invocation
Stage ==
    \/ ParseArgs \/ ParseSizeStage \/ MakeDirs \/ PlanDimensions \/ Synthesize
    \/ Build \/ SaveAs \/ GetSize \/ Report

Next == Stage \/ NextInvocation

Spec == Init /\ [][Next]_vars

(***************************************************************************)
(* C2: an integer literal n with an optional KB/MB/GB suffix in any letter *)
(* case, with or without a blank on either side, parses to n * 1024^k.     *)
(***************************************************************************)
UnitPower(u) ==
    CASE Upper(u) = <<>> -> 0
      [] Upper(u) = <<"K", "B">> -> 1
      [] Upper(u) = <<"M", "B">> -> 2
      [] Upper(u) = <<"G", "B">> -> 3
      [] OTHER -> -1

LiteralWithUnit(p) == IsIntLiteral(p.lit) /\ UnitPower(p.unit) >= 0

Exact(p) == PyInt(LiteralNeg(p.lit), BShl(LiteralMag(p.lit), 10 * UnitPower(p.unit)))

\* C2: a parsed literal of the shape above equals n * 1024^k exactly
C2_ParseExact ==
    (parsed # Pending /\ LiteralWithUnit(parts)) => parsed = Exact(parts)

\* the same, for literals that binary64 holds exactly (at most 53 bits)
ParseExactUpTo53Bits ==
    (parsed # Pending /\ LiteralWithUnit(parts) /\ Len(LiteralMag(parts.lit)) <= 53)
        => parsed = Exact(parts)

(***************************************************************************)
(* C6: whatever parse_size returns is a non-negative count of bytes.       *)
(***************************************************************************)
C6_NonNegative == Returned(parsed) => ~parsed.neg

(***************************************************************************)
(* C1: for every target, calculate_dimensions returns a pair with both     *)
(* width and height in [256, 8192].                                        *)
(***************************************************************************)
InRange(v) == 256 <= v /\ v <= 8192

\* C1: every call returns, with width and height both in [256, 8192]
C1_DimsInRange ==
    plan1 # Pending => (Returned(plan1) /\ InRange(plan1.width) /\ InRange(plan1.height))

\* the same, for the targets whose pixel count is not negative
DimsInRangeFromOverhead ==
    (plan1 # Pending /\ TotalPixels(t1) >= 0)
        => (Returned(plan1) /\ InRange(plan1.width) /\ InRange(plan1.height))

(***************************************************************************)
(* C7: for targets t1 <= t2 in the same tier, the width * height computed  *)
(* before the clamp for t1 is at most the one computed for t2.             *)
(***************************************************************************)
C7_MonotoneInTier ==
    (/\ Returned(plan1) /\ Returned(plan2)
     /\ t1 <= t2
     /\ Tier(TotalPixels(t1)) = Tier(TotalPixels(t2)))
        => plan1.raw_width * plan1.raw_height <= plan2.raw_width * plan2.raw_height

C7_Witness ==
    /\ Returned(plan1) /\ Returned(plan2)
    /\ t1 < t2
    /\ Tier(TotalPixels(t1)) = 2 /\ Tier(TotalPixels(t2)) = 2
    /\ plan1.raw_width * plan1.raw_height < plan2.raw_width * plan2.raw_height

(***************************************************************************)
(* C10: for 256*256 <= total_pixels <= 8192*8192 the plan stays within the *)
(* usable payload: width * height <= total_pixels, short of it by less     *)
(* than one row in the fixed-width tiers and by at most 2 * width in the   *)
(* square tiers; so the pixel payload is at most target - 10240 bytes.     *)
(***************************************************************************)
C10_PlanWithinPayload ==
    LET tp == (t1 - 10240) \div 2
        area == plan1.width * plan1.height
    IN  (plan1 # Pending /\ 256 * 256 <= tp /\ tp <= 8192 * 8192) =>
            /\ Returned(plan1)
            /\ area <= tp
            /\ (tp < 512 * 512 \/ tp >= 2048 * 2048) => tp - area <= 2 * plan1.width
            /\ (512 * 512 <= tp /\ tp < 1024 * 1024) => tp - area < 1024
            /\ (1024 * 1024 <= tp /\ tp < 2048 * 2048) => tp - area < 2048
            /\ PixelDataLen(plan1.width, plan1.height) <= t1 - 10240

C10_Witness ==
    LET tp == (t1 - 10240) \div 2
    IN  /\ Returned(plan1)
        /\ 1024 * 1024 <= tp /\ tp < 2048 * 2048
        /\ plan1.width * plan1.height < tp

(***************************************************************************)
(* C8: every returned sample is the value meant for it saturated into      *)
(* [0, 65535]; no conversion or addition wraps it modulo 65536.            *)
(***************************************************************************)
C8_SaturatedSamples == ipc = "return" => sample = Saturate(intended)

\* what does hold of the returned samples: they are 16-bit unsigned values
SamplesAreU16 == 0 <= sample /\ sample <= 65535

(***************************************************************************)
(* C3: once the arguments are accepted, a run ends either with a failure   *)
(* caught at top level (an error line, a non-zero status, no stage run     *)
(* twice) or with every stage done, the size and the modality printed and  *)
(* status 0; status 0 is not reached unless the output file was written.   *)
(***************************************************************************)
StageOrder ==
    <<"parse_size", "makedirs", "calculate_dimensions", "generate_image", "save_as", "getsize">>

IsPrefix(a, b) == Len(a) <= Len(b) /\ a = SubSeq(b, 1, Len(a))
Printed(line) == \E i \in 1..Len(stdout) : stdout[i] = line
EndsWithLines(lines) ==
    /\ Len(stdout) >= Len(lines)
    /\ SubSeq(stdout, Len(stdout) - Len(lines) + 1, Len(stdout)) = lines

CaughtFailure ==
    /\ status # 0
    /\ EndsWithLines(<<"error">>)
    /\ ~Printed("success")
    /\ log # StageOrder

Success ==
    /\ status = 0
    /\ log = StageOrder
    /\ EndsWithLines(<<"success", "file_size", "modality">>)
    /\ ~Printed("error")
    /\ fs.file = "written" /\ writes = 1

Outcome ==
    ArgsAccepted =>
        /\ IsPrefix(log, StageOrder)
        /\ pc = "exited" => ((CaughtFailure /\ ~Success) \/ (Success /\ ~CaughtFailure))
        /\ (pc = "exited" /\ status = 0) => fs.file = "written"

\* how far along main a statement is
Rank(p) ==
    CASE p = "parse_args" -> 0 [] p = "parse_size" -> 1 [] p = "makedirs" -> 2
      [] p = "plan" -> 3 [] p = "synthesize" -> 4 [] p = "build" -> 5
      [] p = "save" -> 6 [] p = "getsize" -> 7 [] p = "report" -> 8
      [] p = "exited" -> 9

\* no step of an invocation goes back: nothing is retried or recovered from
Forward == run' = run => Rank(pc') > Rank(pc)

\* C3: every reachable state is one of the two outcomes (or on the way to
\* one), and no step of an invocation goes back to an earlier statement
C3_ErrorOrSuccess == []Outcome /\ [][Forward]_vars

C3_Witness ==
    /\ pc = "exited" /\ ArgsAccepted /\ status = 1
    /\ log = SubSeq(StageOrder, 1, 4)
    /\ fs.file = "partial"

(***************************************************************************)
(* C4: a --modality value other than CT, MR or US is rejected while the    *)
(* arguments are parsed: no stage runs, nothing is printed or written, and *)
(* the generic synthesis variant is never taken.                           *)
(***************************************************************************)
C4_BadModalityRejected ==
    /\ variant # "generic"
    /\ Modality \notin {"CT", "MR", "US"} =>
          /\ pc \in {"parse_args", "exited"}
          /\ pc = "exited" => status = 2
          /\ log = <<>> /\ stdout = <<>>
          /\ target_size = Pending /\ dims = Pending
          /\ variant = "none" /\ ~ds.built
          /\ writes = 0 /\ fs \in FsBefore(argv)

C4_Witness == argv.modality = "XR" /\ pc = "exited" /\ status = 2

(***************************************************************************)
(* C5: in every dataset built, the storage-class, instance, study, series  *)
(* and implementation identifiers are each freshly generated: no two       *)
(* fields (file-meta and dataset copies included) share a value, and no    *)
(* value recurs in another invocation's dataset.                           *)
(***************************************************************************)
Datasets == archive \cup (IF ds.built THEN {Ids(ds)} ELSE {})

IdFields ==
    {"MediaStorageSOPClassUID", "SOPClassUID", "MediaStorageSOPInstanceUID",
     "SOPInstanceUID", "StudyInstanceUID", "SeriesInstanceUID", "ImplementationClassUID"}

\* one of the identifiers generate_uid has returned
Minted(u) == \E n \in 0..(uid_count - 1) : u = generate_uid(n)

\* C5: all seven identifier fields are minted, pairwise distinct
\* within a dataset, and never shared with another invocation's dataset
C5_AllIdentifiersFresh ==
    \A d \in Datasets :
        /\ \A f \in IdFields : Minted(d[f])
        /\ \A f, g \in IdFields : f # g => d[f] # d[g]
        /\ \A e \in Datasets \ {d} : \A f, g \in IdFields : d[f] # e[g]

\* the fields create_dicom_file fills from generate_uid()
GeneratedFields ==
    {"MediaStorageSOPInstanceUID", "StudyInstanceUID", "SeriesInstanceUID",
     "ImplementationClassUID"}

\* C5, for the generated identifiers: the four of them are fresh; the storage class
\* is the standard's constant for the modality, and the dataset's class and
\* instance identifiers are copies of the file-meta ones
C5_GeneratedIdentifiersFresh ==
    \A d \in Datasets :
        /\ \A f \in GeneratedFields : Minted(d[f])
        /\ \A f, g \in GeneratedFields : f # g => d[f] # d[g]
        /\ \A e \in Datasets \ {d} : \A f, g \in GeneratedFields : d[f] # e[g]
        /\ d.SOPInstanceUID = d.MediaStorageSOPInstanceUID
        /\ d.SOPClassUID = d.MediaStorageSOPClassUID
        /\ d.MediaStorageSOPClassUID =
              (IF d.Modality = "CT" THEN CTImageStorage ELSE MRImageStorage)

C5_Witness ==
    /\ ds.built
    /\ \E e \in archive :
          /\ e.MediaStorageSOPClassUID = ds.MediaStorageSOPClassUID
          /\ e.MediaStorageSOPInstanceUID # ds.MediaStorageSOPInstanceUID

(***************************************************************************)
(* C9: the stages run in the order size parsing, directory creation,       *)
(* dimension planning, raster synthesis, file write, size read-back; the   *)
(* file is written at most once, after the stages before it, and the       *)
(* read-back changes nothing of the file whatever size it reads.           *)
(***************************************************************************)
StagesInOrder ==
    /\ IsPrefix(log, StageOrder)
    /\ writes <= 1
    /\ writes = 1 => IsPrefix(SubSeq(StageOrder, 1, 4), log)
    /\ fs.file = "written" =>
          (writes = 1 /\ ds.built /\ fs.len - ds.PixelData \in HeaderLens)

ReadBackOnly ==
    pc \in {"getsize", "report"} => (fs' = fs /\ writes' = writes /\ ds' = ds)

\* C9: the stages are logged in the fixed order with at most one write, and
\* no step taken from the read-back on touches the file or the dataset
C9_OrderedSingleWrite == []StagesInOrder /\ [][ReadBackOnly]_vars

C9_Witness ==
    /\ pc = "exited" /\ log = StageOrder
    /\ writes = 1
    /\ fs.len # ToInt(target_size)

====
